---- MODULE Spec2Model ----
(***************************************************************************)
(* Model of goMimeMagic: the MIME magic database reader (pkg/magic) and    *)
(* its command-line caller listAll (cmd/root.go).                          *)
(*                                                                         *)
(* Bytes are the integers 0..255, byte slices are sequences of bytes.      *)
(* A file is a sequence of bytes; the reader is a bufio.Reader over it.    *)
(***************************************************************************)
EXTENDS Integers, Sequences, FiniteSets, TLC

VARIABLES
  doc,        \* the records the file was encoded from (ground truth of the input)
  file,       \* the bytes of the file r.Filename names
  exists,     \* whether os.Open finds the file
  caller,     \* "listAll" (cmd/root.go) or "direct" (Open; ReadSections; Close)
  pc,         \* position of the caller
  closed,     \* r.file has been closed
  ioFault,    \* the device now fails every read with an I/O error
  rbuf,       \* bufio.Reader: bytes buffered and not yet consumed
  fpos,       \* offset of r.file: bytes handed to the bufio.Reader so far
  secs,       \* ReadSections: the local list secs
  line,       \* ReadSections: the last buff read at the top of the loop
  ret,        \* what ReadSections (or Open) returned
  openErr,    \* what Open returned
  closeCalls, \* how many times Close has been called
  readErr     \* the last error a read of r.file met during ReadSections ("nil": none)

vars == <<doc, file, exists, caller, pc, closed, ioFault, rbuf, fpos, secs,
          line, ret, openErr, closeCalls, readErr>>

(* Bounds of the model *)

\* the size of the bufio.Reader buffer (bufio's default, scaled down)
BufSize == 24

\* how many records follow the first two in a generated file
MaxTail == 1

(* The bytes the code names *)

LF == 10
LBR == 91
COLON == 58
GT == 62
EQ == 61
PLUS == 43
TILDE == 126
AMP == 38

\* "MIME-Magic\x00\n"
Signature == <<77, 73, 77, 69, 45, 77, 97, 103, 105, 99, 0, 10>>

(* Byte-slice helpers: bytes.Cut, unicode.IsDigit, strconv.ParseUint *)

Min(a, b) == IF a < b THEN a ELSE b

\* bytes.IndexByte: the first position of b in s, 0 when absent
IndexByte(s, b) ==
  IF \E i \in 1..Len(s) : s[i] = b
    THEN CHOOSE i \in 1..Len(s) : s[i] = b /\ \A j \in 1..(i-1) : s[j] # b
    ELSE 0

\* bytes.Cut(s, []byte{sep})
Cut(s, sep) ==
  LET i == IndexByte(s, sep) IN
  IF i > 0
    THEN [before |-> SubSeq(s, 1, i-1), after |-> SubSeq(s, i+1, Len(s)), found |-> TRUE]
    ELSE [before |-> s, after |-> <<>>, found |-> FALSE]

\* unicode.IsDigit(rune(b)) for a byte b
IsDigit(b) == b >= 48 /\ b <= 57

RECURSIVE StripZeros(_)
StripZeros(s) ==
  IF Len(s) > 0 /\ s[1] = 48 THEN StripZeros(Tail(s)) ELSE s

RECURSIVE LexLeq(_, _)
\* s <= t for digit strings of the same length
LexLeq(s, t) ==
  IF Len(s) = 0 THEN TRUE
  ELSE IF s[1] < t[1] THEN TRUE
  ELSE IF s[1] > t[1] THEN FALSE
  ELSE LexLeq(Tail(s), Tail(t))

\* the digits of 1<<32 - 1
MaxUint32Digits == <<52, 50, 57, 52, 57, 54, 55, 50, 57, 53>>

RECURSIVE DecVal(_)
DecVal(s) ==
  IF Len(s) = 0 THEN 0
  ELSE DecVal(SubSeq(s, 1, Len(s)-1)) * 10 + (s[Len(s)] - 48)

\* strconv.ParseUint(string(s), 10, 32): fails on the empty string, on any byte
\* that is not a decimal digit, and on a value above 1<<32 - 1
ParseUint(s) ==
  IF Len(s) = 0 \/ \E i \in 1..Len(s) : ~IsDigit(s[i])
    THEN [val |-> 0, ok |-> FALSE]
  ELSE LET d == StripZeros(s) IN
    IF Len(d) > 10 \/ (Len(d) = 10 /\ ~LexLeq(d, MaxUint32Digits))
      THEN [val |-> 0, ok |-> FALSE]
      ELSE [val |-> DecVal(d), ok |-> TRUE]

\* make([]byte, n) filled with 0xff
RECURSIVE AllFF(_)
AllFF(n) == IF n = 0 THEN <<>> ELSE <<255>> \o AllFF(n-1)

(* bufio.Reader over os.File *)

\* r.reader.ReadBytes('\n') from buffer buf and file offset pos, acc being the
\* full buffers collected so far.  The result carries the reader's new state.
RECURSIVE ReadBytesFrom(_, _, _)
ReadBytesFrom(acc, buf, pos) ==
  LET i == IndexByte(buf, LF) IN
  IF i > 0 THEN
    [data |-> acc \o SubSeq(buf, 1, i), err |-> "nil",
     buf |-> SubSeq(buf, i+1, Len(buf)), pos |-> pos]
  ELSE IF Len(buf) >= BufSize THEN
    ReadBytesFrom(acc \o buf, <<>>, pos)
  ELSE IF closed THEN
    [data |-> acc \o buf, err |-> "ErrClosed", buf |-> <<>>, pos |-> pos]
  ELSE IF ioFault THEN
    [data |-> acc \o buf, err |-> "EIO", buf |-> <<>>, pos |-> pos]
  ELSE IF pos >= Len(file) THEN
    [data |-> acc \o buf, err |-> "EOF", buf |-> <<>>, pos |-> pos]
  ELSE
    LET n == Min(BufSize - Len(buf), Len(file) - pos) IN
    ReadBytesFrom(acc, buf \o SubSeq(file, pos+1, pos+n), pos+n)

ReadBytes(buf, pos) == ReadBytesFrom(<<>>, buf, pos)


(* pkg/magic: the token helpers *)

\* getUintToken: an unsigned decimal token ended by del
getUintToken(buff, del) ==
  LET c == Cut(buff, del) IN
  IF ~c.found THEN [val |-> 0, buff |-> <<>>, err |-> "ErrContentCorrupted"]
  ELSE IF Len(c.before) = 0 THEN [val |-> 0, buff |-> c.after, err |-> "ErrTokenNotFound"]
  ELSE LET p == ParseUint(c.before) IN
    IF ~p.ok THEN [val |-> 0, buff |-> <<>>, err |-> "ErrContentCorrupted"]
    ELSE [val |-> p.val, buff |-> c.after, err |-> "nil"]

\* getOptUintToken with optVal starting at its zero value instead of 1
getOptUintTokenZeroDefault(buff, del) ==
  LET c == Cut(buff, del) IN
  IF ~c.found THEN [val |-> 0, buff |-> c.before, err |-> "nil"]
  ELSE IF Len(c.after) = 0 THEN [val |-> 0, buff |-> <<>>, err |-> "panic"]
  ELSE IF ~IsDigit(c.after[1]) THEN
    [val |-> 0, buff |-> (c.before \o <<del>>) \o c.after, err |-> "nil"]
  ELSE LET p == ParseUint(c.after) IN
    IF ~p.ok THEN [val |-> 0, buff |-> <<>>, err |-> "ErrContentCorrupted"]
    ELSE [val |-> p.val, buff |-> c.before, err |-> "nil"]

\* getOptUintToken: an optional unsigned decimal token that follows del.
\* optBytes[0] is read without a length check: an empty optBytes panics.
getOptUintToken(buff, del) ==
  LET c == Cut(buff, del) IN
  IF ~c.found THEN [val |-> 1, buff |-> c.before, err |-> "nil"]
  ELSE IF Len(c.after) = 0 THEN [val |-> 0, buff |-> <<>>, err |-> "panic"]
  ELSE IF ~IsDigit(c.after[1]) THEN
    [val |-> 1, buff |-> (c.before \o <<del>>) \o c.after, err |-> "nil"]
  ELSE LET p == ParseUint(c.after) IN
    IF ~p.ok THEN [val |-> 0, buff |-> <<>>, err |-> "ErrContentCorrupted"]
    ELSE [val |-> p.val, buff |-> c.before, err |-> "nil"]

NoContent ==
  [Indent |-> 0, Offset |-> 0, Value |-> <<>>, Mask |-> <<>>,
   RangeLength |-> 0, WordSize |-> 0]

\* readContent, lines 146-155: pull lines until buff holds more than size bytes
RECURSIVE PullLines(_, _, _, _)
PullLines(buff, size, buf, pos) ==
  IF Len(buff) > size THEN
    [buff |-> buff, err |-> "nil", buf |-> buf, pos |-> pos, rerr |-> "nil"]
  ELSE IF ReadBytes(buf, pos).err # "nil" THEN
    [buff |-> buff, err |-> "ErrContentCorrupted", buf |-> ReadBytes(buf, pos).buf,
     pos |-> ReadBytes(buf, pos).pos, rerr |-> ReadBytes(buf, pos).err]
  ELSE PullLines(buff \o ReadBytes(buf, pos).data, size,
                 ReadBytes(buf, pos).buf, ReadBytes(buf, pos).pos)

\* readContent, lines 157-182: the optional tokens, the value and the mask
readClauses(indent, offset, size, buff) ==
  LET rl == getOptUintToken(SubSeq(buff, 1, Len(buff)-1), PLUS) IN
  IF rl.err # "nil" THEN [con |-> NoContent, err |-> rl.err]
  ELSE LET ws == getOptUintToken(rl.buff, TILDE) IN
    IF ws.err # "nil" THEN [con |-> NoContent, err |-> ws.err]
    ELSE LET c == Cut(ws.buff, AMP) IN
      [con |-> [Indent |-> indent, Offset |-> offset, Value |-> c.before,
                Mask |-> IF c.found THEN c.after ELSE AllFF(size),
                RangeLength |-> rl.val, WordSize |-> ws.val],
       err |-> "nil"]

\* readContent, lines 157-182, on the outcome pl of the pulls
readTail(indent, offset, size, pl) ==
  IF pl.err # "nil" THEN
    [con |-> NoContent, err |-> pl.err, buf |-> pl.buf, pos |-> pl.pos, rerr |-> pl.rerr]
  ELSE
    [con |-> readClauses(indent, offset, size, pl.buff).con,
     err |-> readClauses(indent, offset, size, pl.buff).err,
     buf |-> pl.buf, pos |-> pl.pos, rerr |-> pl.rerr]

\* readContent, lines 139-144: the 2-byte big-endian size, taken only when
\* buff holds at least 2 bytes (size stays 0 otherwise)
readSize(indent, offset, buff, buf, pos) ==
  IF Len(buff) >= 2
    THEN readTail(indent, offset, buff[1] * 256 + buff[2],
                  PullLines(SubSeq(buff, 3, Len(buff)), buff[1] * 256 + buff[2],
                            buf, pos))
    ELSE readTail(indent, offset, 0, PullLines(buff, 0, buf, pos))

\* readContent, lines 134-137: the offset token off
readOffset(indent, off, buf, pos) ==
  IF off.err # "nil" THEN
    [con |-> NoContent, err |-> off.err, buf |-> buf, pos |-> pos, rerr |-> "nil"]
  ELSE readSize(indent, off.val, off.buff, buf, pos)

\* readContent, lines 129-132: the indent token ind; a missing indent
\* (ErrTokenNotFound) leaves indent 0
readIndent(ind, buf, pos) ==
  IF ind.err \notin {"nil", "ErrTokenNotFound"} THEN
    [con |-> NoContent, err |-> ind.err, buf |-> buf, pos |-> pos, rerr |-> "nil"]
  ELSE readOffset(ind.val, getUintToken(ind.buff, EQ), buf, pos)

\* readContent(buff) with the reader at (buf, pos)
readContent(buff, buf, pos) == readIndent(getUintToken(buff, GT), buf, pos)

NoSection == [Filetype |-> <<>>, Priority |-> 0, Contents |-> <<>>]

\* readHeader(buff): buff[1:len(buff)-2] panics when len(buff) is 2
readHeader(buff) ==
  IF Len(buff) - 2 < 1 THEN [sec |-> NoSection, err |-> "panic"]
  ELSE LET c == Cut(SubSeq(buff, 2, Len(buff)-2), COLON) IN
    IF ~c.found THEN [sec |-> NoSection, err |-> "ErrHeaderCorrupted"]
    ELSE LET p == ParseUint(c.before) IN
      IF ~p.ok THEN [sec |-> NoSection, err |-> "ErrHeaderCorrupted"]
      ELSE [sec |-> [Filetype |-> c.after, Priority |-> p.val, Contents |-> <<>>],
            err |-> "nil"]

\* checkMagicHeader on a fresh bufio.Reader: one Read of the file fills the
\* buffer, the first 12 bytes (zero padded when fewer came) are compared with
\* the signature
checkMagicHeader ==
  IF ioFault THEN [err |-> "EIO", buf |-> <<>>, pos |-> 0]
  ELSE IF Len(file) = 0 THEN [err |-> "EOF", buf |-> <<>>, pos |-> 0]
  ELSE
    LET n == Min(BufSize, Len(file))
        got == SubSeq(file, 1, n)
        k == Min(Len(Signature), n)
        fileSign == [i \in 1..Len(Signature) |-> IF i <= k THEN got[i] ELSE 0]
    IN [err |-> IF fileSign = Signature THEN "nil" ELSE "ErrFileIsNotMIMEMagic",
        buf |-> SubSeq(got, k+1, n), pos |-> n]

(* The input: a file is the signature followed by the encoding of records *)

\* a [priority:filetype] header line
Hdr(prio, ftype) ==
  [kind |-> "header", raw |-> <<>>, prio |-> prio, ftype |-> ftype,
   indent |-> <<>>, offset |-> <<>>, len |-> 0, value |-> <<>>,
   range |-> <<>>, word |-> <<>>, hasMask |-> FALSE, mask |-> <<>>, order |-> "none"]

\* a line given byte by byte
Raw(kind, bytes) ==
  [kind |-> kind, raw |-> bytes, prio |-> <<>>, ftype |-> <<>>,
   indent |-> <<>>, offset |-> <<>>, len |-> 0, value |-> <<>>,
   range |-> <<>>, word |-> <<>>, hasMask |-> FALSE, mask |-> <<>>, order |-> "none"]

\* a content line: indent and offset are digit strings (indent may be empty),
\* range and word are digit strings, empty when the clause is absent; order is
\* "rwm" for VALUE +RANGE ~WORDSIZE &MASK and "mwr" for VALUE &MASK ~WORDSIZE +RANGE
Con(indent, offset, value, range, word, hasMask, mask, order) ==
  [kind |-> "content", raw |-> <<>>, prio |-> <<>>, ftype |-> <<>>,
   indent |-> indent, offset |-> offset, len |-> Len(value), value |-> value,
   range |-> range, word |-> word, hasMask |-> hasMask, mask |-> mask, order |-> order]

Plain(indent, offset, value) == Con(indent, offset, value, <<>>, <<>>, FALSE, <<>>, "rwm")

\* the 2-byte big-endian length
U16(n) == <<n \div 256, n % 256>>

RangeClause(r) == IF Len(r.range) > 0 THEN <<PLUS>> \o r.range ELSE <<>>
WordClause(r) == IF Len(r.word) > 0 THEN <<TILDE>> \o r.word ELSE <<>>
MaskClause(r) == IF r.hasMask THEN <<AMP>> \o r.mask ELSE <<>>

Encode(r) ==
  IF r.kind = "header" THEN ((<<LBR>> \o r.prio) \o <<COLON>>) \o (r.ftype \o <<93, LF>>)
  ELSE IF r.kind = "content" THEN
    ((r.indent \o <<GT>>) \o (r.offset \o <<EQ>>)) \o (U16(r.len) \o r.value)
      \o (IF r.order = "rwm"
            THEN (RangeClause(r) \o WordClause(r)) \o MaskClause(r)
            ELSE (MaskClause(r) \o WordClause(r)) \o RangeClause(r))
      \o <<LF>>
  ELSE r.raw

RECURSIVE EncodeAll(_)
EncodeAll(d) == IF Len(d) = 0 THEN <<>> ELSE Encode(d[1]) \o EncodeAll(Tail(d))

\* values without any of the bytes + ~ & \n
CleanValues == { <<116, 101, 115, 116>>, <<97, 98>>, <<>>,
                 <<97, 98, 99, 100, 101, 102, 103, 104, 105, 106>> }

\* values with a delimiter byte: a&b a+1 a~2 a+b a~b +a a+ a~ a\nb \n ab\n
DelimValues == { <<97, AMP, 98>>, <<97, PLUS, 49>>, <<97, TILDE, 50>>,
                 <<97, PLUS, 98>>, <<97, TILDE, 98>>, <<PLUS, 97>>,
                 <<97, PLUS>>, <<97, TILDE>>,
                 <<97, LF, 98>>, <<LF>>, <<97, 98, LF>> }

\* the clause combinations: range 5, word size 2, a mask of 0x0f bytes
ClauseCombos ==
  { c \in [range : {<<>>, <<53>>}, word : {<<>>, <<50>>}, hasMask : BOOLEAN,
           order : {"rwm", "mwr"}] :
      /\ Len(c.range) > 0 \/ Len(c.word) > 0 \/ c.hasMask
      \* a single clause reads the same in either order
      /\ (c.order = "mwr" =>
            Cardinality({x \in {1, 2, 3} :
               \/ x = 1 /\ Len(c.range) > 0
               \/ x = 2 /\ Len(c.word) > 0
               \/ x = 3 /\ c.hasMask}) > 1) }

Mask0F(n) == [i \in 1..n |-> 15]

\* [50:text/plain] and [1:a]
GoodHeaders ==
  { Hdr(<<53, 48>>, <<116, 101, 120, 116, 47, 112, 108, 97, 105, 110>>),
    Hdr(<<49>>, <<97>>) }

\* and the lines [ , [1a] and [x:a]
Headers ==
  GoodHeaders \cup
  { Raw("rawheader", <<LBR, LF>>),
    Raw("rawheader", <<LBR, 49, 97, 93, LF>>),
    Raw("rawheader", <<LBR, 120, COLON, 97, 93, LF>>) }

Contents ==
  { Plain(<<>>, <<48>>, v) : v \in CleanValues \cup DelimValues }
  \cup { Plain(<<49>>, <<49, 50>>, v) : v \in {<<97, 98>>, <<97, AMP, 98>>, <<97, LF, 98>>} }
  \cup { Con(<<>>, <<48>>, v, c.range, c.word, c.hasMask, Mask0F(Len(v)), c.order) :
           v \in {<<97, 98>>, <<97, LF, 98>>, <<>>,
                 <<97, 98, 99, 100, 101, 102, 103, 104, 105, 106>>}, c \in ClauseCombos }
  \* masks with a newline, a mask shorter than the value
  \cup { Con(<<>>, <<48>>, <<97, 98>>, <<>>, <<>>, TRUE, m, "rwm") :
           m \in {<<15, LF>>, <<LF, 15>>, <<15>>} }
  \cup { Con(<<>>, <<48>>, <<97>>, <<53>>, <<>>, TRUE, <<LF>>, "mwr") }
  \* >0= and a length field whose first byte is a newline (LENGTH 0x0A..)
  \cup { Raw("rawcontent", <<GT, 48, EQ, LF>>) }
  \* lines that are no content lines: abc, >0, >x=\0\1a, >=\0\1a
  \cup { Raw("rawcontent", <<97, 98, 99, LF>>),
         Raw("rawcontent", <<GT, 48, LF>>),
         Raw("rawcontent", <<GT, 120, EQ, 0, 1, 97, LF>>),
         Raw("rawcontent", <<GT, EQ, 0, 1, 97, LF>>) }

Tails == { Hdr(<<50>>, <<98>>), Plain(<<>>, <<48>>, <<121>>) }

\* a single line; or a header, a line and up to MaxTail further lines
Docs ==
  { <<h>> : h \in Headers \cup {Plain(<<>>, <<48>>, <<97, 98>>)} }
  \cup UNION { { (<<h, c>> \o t) : h \in GoodHeaders, c \in Contents \cup {Hdr(<<50>>, <<98>>)},
                                   t \in [1..n -> Tails] } : n \in 0..MaxTail }

\* files that are no MIME magic files: empty, too short, a wrong signature
BadFiles == { <<>>, <<77, 73, 77, 69>>, [Signature EXCEPT ![11] = 1] \o <<LBR, LF>> }

NoRet == [secs |-> <<>>, isNil |-> TRUE, err |-> "none"]

Init ==
  /\ \/ /\ doc \in Docs
        /\ file = Signature \o EncodeAll(doc)
        /\ exists = TRUE
     \/ /\ doc = <<>>
        /\ \/ file \in BadFiles /\ exists = TRUE
           \/ file = <<>> /\ exists = FALSE
  /\ caller \in {"listAll", "direct"}
  /\ pc = "start"
  /\ closed = FALSE
  /\ ioFault = FALSE
  /\ rbuf = <<>>
  /\ fpos = 0
  /\ secs = <<>>
  /\ line = <<>>
  /\ ret = NoRet
  /\ openErr = "none"
  /\ closeCalls = 0
  /\ readErr = "nil"

(* The operations *)

\* MagicReader.Open, called by listAll (cobra.CheckErr exits on an error) or by
\* a direct caller (which goes no further on an error)
Open ==
  /\ pc = "start"
  /\ LET cm == checkMagicHeader
         err == IF exists THEN cm.err ELSE "ENOENT"
     IN /\ openErr' = err
        /\ rbuf' = IF exists THEN cm.buf ELSE <<>>
        /\ fpos' = IF exists THEN cm.pos ELSE 0
        /\ pc' = IF err # "nil" THEN "exit"
                 ELSE IF caller = "listAll" THEN "opened" ELSE "reading"
  /\ UNCHANGED <<doc, file, exists, caller, closed, ioFault, secs, line, ret,
                 closeCalls, readErr>>

\* listAll, "defer cobra.CheckErr(r.Close())": the argument r.Close() is
\* evaluated when the defer statement runs, the call of CheckErr is deferred
DeferClose ==
  /\ caller = "listAll"
  /\ pc = "opened"
  /\ closed' = TRUE
  /\ closeCalls' = closeCalls + 1
  /\ pc' = "reading"
  /\ UNCHANGED <<doc, file, exists, caller, ioFault, rbuf, fpos, secs, line, ret,
                 openErr, readErr>>

\* ReadSections: the read at the top of the loop fails; EOF and ErrClosed end
\* the loop, any other error is returned
ReadEnd ==
  /\ pc = "reading"
  /\ LET rb == ReadBytes(rbuf, fpos) IN
     /\ rb.err # "nil"
     /\ ret' = IF rb.err \notin {"EOF", "ErrClosed"}
                 THEN [secs |-> <<>>, isNil |-> TRUE, err |-> rb.err]
                 ELSE [secs |-> secs, isNil |-> FALSE, err |-> "nil"]
     /\ line' = rb.data
     /\ rbuf' = rb.buf
     /\ fpos' = rb.pos
     /\ readErr' = IF rb.err # "nil" THEN rb.err ELSE readErr
     /\ pc' = "returned"
  /\ UNCHANGED <<doc, file, exists, caller, closed, ioFault, secs, openErr, closeCalls>>

\* ReadSections: one turn of the loop on a line that begins with '['
ReadHeaderLine ==
  /\ pc = "reading"
  /\ LET rb == ReadBytes(rbuf, fpos) IN
     /\ rb.err = "nil"
     /\ rb.data[1] = LBR
     /\ LET rh == readHeader(rb.data) IN
        /\ secs' = IF rh.err = "nil" THEN Append(secs, rh.sec) ELSE secs
        /\ ret' = IF rh.err \in {"nil", "panic"} THEN ret
                  ELSE [secs |-> <<>>, isNil |-> TRUE, err |-> rh.err]
        /\ pc' = IF rh.err = "nil" THEN "reading"
                 ELSE IF rh.err = "panic" THEN "crashed" ELSE "returned"
     /\ line' = rb.data
     /\ rbuf' = rb.buf
     /\ fpos' = rb.pos
     /\ readErr' = IF rb.err # "nil" THEN rb.err ELSE readErr
  /\ UNCHANGED <<doc, file, exists, caller, closed, ioFault, openErr, closeCalls>>

\* ReadSections: one turn of the loop on any other line
ReadContentLine ==
  /\ pc = "reading"
  /\ LET rb == ReadBytes(rbuf, fpos) IN
     /\ rb.err = "nil"
     /\ rb.data[1] # LBR
     /\ line' = rb.data
     /\ IF Len(secs) = 0 THEN
          /\ ret' = [secs |-> <<>>, isNil |-> TRUE, err |-> "ErrHeaderCorrupted"]
          /\ pc' = "returned"
          /\ rbuf' = rb.buf
          /\ fpos' = rb.pos
          /\ readErr' = IF rb.err # "nil" THEN rb.err ELSE readErr
          /\ secs' = secs
        ELSE LET rc == readContent(rb.data, rb.buf, rb.pos) IN
          /\ secs' = IF rc.err = "nil"
                       THEN [secs EXCEPT ![Len(secs)].Contents = Append(@, rc.con)]
                       ELSE secs
          /\ ret' = IF rc.err \in {"nil", "panic"} THEN ret
                    ELSE [secs |-> <<>>, isNil |-> TRUE, err |-> rc.err]
          /\ pc' = IF rc.err = "nil" THEN "reading"
                   ELSE IF rc.err = "panic" THEN "crashed" ELSE "returned"
          /\ rbuf' = rc.buf
          /\ fpos' = rc.pos
          /\ readErr' = IF rc.rerr # "nil" THEN rc.rerr ELSE readErr
  /\ UNCHANGED <<doc, file, exists, caller, closed, ioFault, openErr, closeCalls>>

\* listAll after ReadSections: cobra.CheckErr(err) exits the process on an
\* error (deferred calls do not run); otherwise the sections are printed and
\* the deferred CheckErr(nil) runs on return
Finish ==
  /\ caller = "listAll"
  /\ pc = "returned"
  /\ pc' = IF ret.err # "nil" THEN "exit" ELSE "done"
  /\ UNCHANGED <<doc, file, exists, caller, closed, ioFault, rbuf, fpos, secs, line,
                 ret, openErr, closeCalls, readErr>>

\* MagicReader.Close called by a direct caller once ReadSections has returned
Close ==
  /\ caller = "direct"
  /\ pc = "returned"
  /\ closed' = TRUE
  /\ closeCalls' = closeCalls + 1
  /\ pc' = "done"
  /\ UNCHANGED <<doc, file, exists, caller, ioFault, rbuf, fpos, secs, line, ret,
                 openErr, readErr>>

\* the environment: from now on the device fails every read of the file
DiskFault ==
  /\ ~ioFault
  /\ pc \in {"start", "opened", "reading"}
  /\ ioFault' = TRUE
  /\ UNCHANGED <<doc, file, exists, caller, pc, closed, rbuf, fpos, secs, line, ret,
                 openErr, closeCalls, readErr>>

Next ==
  \/ Open
  \/ DeferClose
  \/ ReadEnd
  \/ ReadHeaderLine
  \/ ReadContentLine
  \/ Finish
  \/ Close
  \/ DiskFault

Spec == Init /\ [][Next]_vars

(* What the format says a file decodes to *)

Num(digits) == IF Len(digits) = 0 THEN 0 ELSE DecVal(digits)

\* the Content a content record stands for
ExpectedContent(r) ==
  [Indent |-> Num(r.indent), Offset |-> Num(r.offset), Value |-> r.value,
   Mask |-> IF r.hasMask THEN r.mask ELSE AllFF(Len(r.value)),
   RangeLength |-> IF Len(r.range) = 0 THEN 1 ELSE DecVal(r.range),
   WordSize |-> IF Len(r.word) = 0 THEN 1 ELSE DecVal(r.word)]

\* the Sections a sequence of header and content records stands for
RECURSIVE Expected(_)
Expected(d) ==
  IF Len(d) = 0 THEN <<>>
  ELSE LET before == Expected(SubSeq(d, 1, Len(d)-1))
           r == d[Len(d)]
       IN IF r.kind = "header"
            THEN Append(before, [Filetype |-> r.ftype, Priority |-> DecVal(r.prio),
                                 Contents |-> <<>>])
            ELSE [before EXCEPT ![Len(before)].Contents = Append(@, ExpectedContent(r))]

HasByte(s, b) == \E i \in 1..Len(s) : s[i] = b

Delims == {PLUS, TILDE, AMP, LF}

Clean(s) == \A i \in 1..Len(s) : s[i] \notin Delims

NumClauses(r) ==
  (IF Len(r.range) > 0 THEN 1 ELSE 0) + (IF Len(r.word) > 0 THEN 1 ELSE 0)
    + (IF r.hasMask THEN 1 ELSE 0)

\* a header line followed by content lines only
HeaderThenContents(d) ==
  /\ Len(d) >= 2
  /\ d[1].kind = "header"
  /\ \A i \in 2..Len(d) : d[i].kind = "content"

\* Open succeeded on an open, healthy file and ReadSections has ended
DirectEnded == caller = "direct" /\ ~ioFault /\ pc \in {"returned", "crashed"}

ReturnedOK == pc = "returned" /\ ret.err = "nil" /\ ~ret.isNil

\* the first Content of the first Section of the result
FirstContent == ret.secs[1].Contents[1]

HasFirstContent ==
  ReturnedOK /\ Len(ret.secs) >= 1 /\ Len(ret.secs[1].Contents) >= 1

(* The claims *)

\* C1: a stream made of the signature, a header line and content lines without
\* any +, ~ or & clause (any LENGTH value bytes) is read without error, and
\* every Content has the record's indent, offset and value, range_length 1,
\* word_size 1 and an all-0xFF mask as long as the value.
C1_PlainContentDefaults ==
  (DirectEnded /\ HeaderThenContents(doc)
     /\ \A i \in 2..Len(doc) : NumClauses(doc[i]) = 0)
  => (ReturnedOK /\ ret.secs = Expected(doc))

\* the concrete scenario of C1: [50:text/plain] and >0=\0\4test
ScenarioTextPlain ==
  (DirectEnded /\ doc = << Hdr(<<53, 48>>, <<116, 101, 120, 116, 47, 112, 108, 97, 105, 110>>),
                           Plain(<<>>, <<48>>, <<116, 101, 115, 116>>) >>)
  => (ReturnedOK /\ ret.secs = Expected(doc))

\* C2: a list returned with a nil error holds no Section without Contents.
C2_NoEmptySection ==
  ret.err = "nil" => \A i \in 1..Len(ret.secs) : Len(ret.secs[i].Contents) >= 1

\* the lines C3 is about: contents with delimiter-free VALUE and MASK whose
\* clauses come in the given order, the first of them carrying a clause
ClauseLines(d, order) ==
  /\ HeaderThenContents(d)
  /\ NumClauses(d[2]) >= 1
  /\ \A i \in 2..Len(d) :
       /\ Clean(d[i].value)
       /\ Clean(d[i].mask)
       /\ d[i].hasMask => Len(d[i].mask) = Len(d[i].value)
       /\ NumClauses(d[i]) >= 2 => d[i].order = order

\* C3 as stated: clauses in the order VALUE +RANGE ~WORDSIZE &MASK are decoded
\* without error into value, range_length, word_size and mask.
C3_RangeWordMaskOrder ==
  (DirectEnded /\ ClauseLines(doc, "rwm")) => (ReturnedOK /\ ret.secs = Expected(doc))

\* C3 amended: clauses in the order VALUE &MASK ~WORDSIZE +RANGE (any
\* non-empty subset, in that order, VALUE and MASK delimiter-free and of
\* LENGTH bytes) are decoded without error into value, mask, word_size and
\* range_length, absent clauses giving 1, 1 and the all-0xFF mask.
C3_MaskWordRangeOrder ==
  (DirectEnded /\ ClauseLines(doc, "mwr")) => (ReturnedOK /\ ret.secs = Expected(doc))

\* witness of C3: a line VALUE &MASK ~WORDSIZE +RANGE has been decoded
C3_Witness ==
  /\ DirectEnded /\ ClauseLines(doc, "mwr") /\ NumClauses(doc[2]) = 3
  /\ HasFirstContent
  /\ FirstContent.RangeLength = 5 /\ FirstContent.WordSize = 2
  /\ FirstContent.Mask = <<15, 15>>

\* a + or ~ of s that is not followed by a decimal digit
LiteralAt(s, b) ==
  \E i \in 1..Len(s) : s[i] = b /\ (i = Len(s) \/ ~IsDigit(s[i+1]))

\* C4: VALUE is taken by length: whatever bytes the payload of a clause-free
\* line holds (an &, a + or ~ followed by a digit), the Content's value is
\* exactly the payload and no range, word size or mask is read out of it.
C4_ValueByLength ==
  (/\ DirectEnded /\ HeaderThenContents(doc) /\ Len(doc) = 2
   /\ NumClauses(doc[2]) = 0 /\ ~HasByte(doc[2].value, LF)
   /\ ~LiteralAt(doc[2].value, PLUS) /\ ~LiteralAt(doc[2].value, TILDE))
  => /\ HasFirstContent
     /\ FirstContent.Value = doc[2].value
     /\ FirstContent.RangeLength = 1
     /\ FirstContent.WordSize = 1
     /\ FirstContent.Mask = AllFF(doc[2].len)

\* C5: a VALUE or a MASK that holds a newline is consumed as exactly LENGTH
\* bytes and returned unchanged, the clauses after it are parsed as usual and
\* the next record starts after the record's own newline.
C5_EmbeddedNewline ==
  (/\ DirectEnded /\ HeaderThenContents(doc)
   /\ HasByte(doc[2].value, LF) \/ HasByte(doc[2].mask, LF)
   /\ \A i \in 2..Len(doc) :
        /\ \A b \in {PLUS, TILDE, AMP} : ~HasByte(doc[i].value, b) /\ ~HasByte(doc[i].mask, b)
        /\ doc[i].hasMask => Len(doc[i].mask) = Len(doc[i].value)
        /\ NumClauses(doc[i]) >= 2 => doc[i].order = "mwr")
  => (ReturnedOK /\ ret.secs = Expected(doc))

\* C6: a payload with a + (or a ~) that no digit follows, its last byte
\* included, is read without error or crash, the byte stays in the value and
\* range_length (word_size) is not taken from it.
C6_DigitLookahead ==
  (/\ DirectEnded /\ HeaderThenContents(doc) /\ Len(doc) = 2
   /\ NumClauses(doc[2]) = 0
   /\ LiteralAt(doc[2].value, PLUS) \/ LiteralAt(doc[2].value, TILDE)
   /\ \A i \in 1..Len(doc[2].value) : doc[2].value[i] \in {PLUS, TILDE} \/ Clean(<<doc[2].value[i]>>))
  => /\ pc # "crashed"
     /\ HasFirstContent
     /\ FirstContent.Value = doc[2].value
     /\ FirstContent.RangeLength = 1
     /\ FirstContent.WordSize = 1

\* C7: every Content of a successful result has a mask as long as its value.
C7_MaskLength ==
  ReturnedOK =>
    \A i \in 1..Len(ret.secs) : \A j \in 1..Len(ret.secs[i].Contents) :
      Len(ret.secs[i].Contents[j].Mask) = Len(ret.secs[i].Contents[j].Value)

\* C8: a line that begins with [ and ends with \n, of any length, either
\* becomes a Section (priority before the first ':', filetype after it, no
\* Contents) or makes ReadSections return HeaderCorrupted and no list.
C8_HeaderOutcome ==
  (Len(line) >= 1 /\ line[1] = LBR /\ line[Len(line)] = LF)
  => \/ /\ pc = "reading"
        /\ Len(secs) >= 1
        /\ HasByte(line, COLON)
        /\ secs[Len(secs)] =
             [Filetype |-> SubSeq(line, IndexByte(line, COLON) + 1, Len(line) - 2),
              Priority |-> DecVal(SubSeq(line, 2, IndexByte(line, COLON) - 1)),
              Contents |-> <<>>]
     \/ /\ pc \in {"returned", "exit", "done"}
        /\ ret.isNil
        /\ ret.err = "ErrHeaderCorrupted"

\* C9: a read error other than a clean end of stream, a read of a closed file
\* included, makes ReadSections return a nil list and that I/O error.
C9_IOErrorPropagates ==
  (pc \in {"returned", "exit", "done"} /\ readErr \in {"EIO", "ErrClosed"})
  => (ret.isNil /\ ret.err = readErr)

\* C10: in listAll, Close is called once and only after ReadSections has
\* returned, so no read is attempted on the closed file.
C10_CloseAfterRead ==
  caller = "listAll" =>
    /\ closeCalls >= 1 => (pc \in {"returned", "exit", "done"} /\ ret.err # "none")
    /\ closeCalls <= 1
    /\ readErr # "ErrClosed"

\* the first line of the second record, as ReadBytes('\n') returns it
SecondLine == SubSeq(Encode(doc[2]), 1, IndexByte(Encode(doc[2]), LF))

\* the offset in the file of the = of the second record's first line
EqOffset == Len(Signature) + Len(Encode(doc[1])) + IndexByte(SecondLine, EQ)

\* the second record is a content line that ends less than 2 bytes after its =
ShortAfterEq ==
  /\ Len(doc) >= 2
  /\ doc[1].kind = "header"
  /\ doc[2].kind \in {"content", "rawcontent"}
  /\ IndexByte(SecondLine, GT) > 0
  /\ IndexByte(SecondLine, EQ) > IndexByte(SecondLine, GT)
  /\ Len(SecondLine) - IndexByte(SecondLine, EQ) < 2

\* C11: when fewer than 2 bytes follow the = in the line buffer (the length
\* field holds a newline in its first byte), readContent pulls further lines
\* and takes the 2 bytes after the = in the stream as LENGTH; it never goes on
\* with a LENGTH of 0 that it did not read.  The LENGTH taken shows in the
\* default mask, which has LENGTH bytes.
C11_LengthAcrossNewline ==
  (/\ DirectEnded /\ ShortAfterEq
   /\ Len(secs) >= 1 /\ Len(secs[1].Contents) >= 1)
  => /\ EqOffset + 2 <= Len(file)
     /\ Len(secs[1].Contents[1].Mask) = file[EqOffset + 1] * 256 + file[EqOffset + 2]

====
